---- MODULE Spec2Model ----
(***************************************************************************)
(* KHISBA GIS dashboard (src/app.py): a Streamlit script that is re-run    *)
(* from its first line after every user interaction.  The state that       *)
(* survives a re-run is st.session_state (authenticated, analysis_results, *)
(* selected_area) and the values held by the widgets.  One action of the   *)
(* model is one interaction followed by the complete re-run it triggers.   *)
(*                                                                         *)
(* Optional values (Python None) are sequences of length at most one:      *)
(* None is <<>> and a present value x is <<x>>.                            *)
(*                                                                         *)
(* A float is an integer number of ticks; TicksPerUnit ticks make 0.0001,  *)
(* the last digit that the summary table prints.                           *)
(***************************************************************************)
EXTENDS Integers, Sequences, FiniteSets, TLC

VARIABLES authenticated, analysis_results, selected_area,
          selected_country, selected_region, start_date, end_date,
          selected_indices, flash, raised_at, password,
          summary_df, export_df, stage

vars == <<authenticated, analysis_results, selected_area,
          selected_country, selected_region, start_date, end_date,
          selected_indices, flash, raised_at, password,
          summary_df, export_df, stage>>

session == <<authenticated, analysis_results, selected_area>>
widgets == <<selected_country, selected_region, start_date, end_date, selected_indices>>
tables  == <<summary_df, export_df, stage>>

----------------------------------------------------------------------------
(* Bounds of the model *)

\* days of the calendar the date inputs can be set to (day 1 is 2023-01-01)
MaxDay == 2
\* states of the random generator a run can start from
NumSeeds == 2
\* resolution of a float below the fourth decimal
TicksPerUnit == 2
\* longest series of a result handed to the results section
MaxLen == 2

----------------------------------------------------------------------------
(* Optional values and Python lists *)

None == <<>>
Some(x) == <<x>>
IsNone(o) == o = <<>>
Get(o) == o[1]

Range(s) == {s[i] : i \in 1..Len(s)}
NoDup(s) == \A i, j \in 1..Len(s) : s[i] = s[j] => i = j
Min2(a, b) == IF a <= b THEN a ELSE b

RECURSIVE SeqsUpTo(_, _)
\* all sequences over S of length at most n
SeqsUpTo(S, n) ==
    IF n = 0 THEN {<<>>}
    ELSE LET shorter == SeqsUpTo(S, n - 1)
         IN  shorter \cup {Append(s, x) : s \in shorter, x \in S}

----------------------------------------------------------------------------
(* Area selection card *)

placeholder_country == "Select a country"
placeholder_region  == "Select region"

\* the options of the country selectbox (four of the eleven)
countries == <<"Select a country", "Canada", "France", "India">>

\* regions.get(selected_country, ["All regions"])
regions(country) ==
    IF country = "Canada"
    THEN <<"Ontario", "Quebec", "British Columbia", "Alberta">>
    ELSE <<"All regions">>

\* options=["Select region"] + region_options
region_options(country) == <<placeholder_region>> \o regions(country)

\* session_state.selected_area after the area card has run
StoreSelectedArea(area, country, region) ==
    IF country # "" /\ country # placeholder_country
    THEN IF region # "" /\ region # placeholder_region
         THEN Some(region \o ", " \o country)
         ELSE Some(country)
    ELSE area

\* the value of the State/Province selectbox in the re-run that follows a
\* change of the country: a selectbox keeps its value while it is rendered
\* with the same label and options, and starts at index 0 otherwise
RegionAfterCountry(old_country, old_region, country) ==
    IF /\ country # placeholder_country
       /\ old_country # placeholder_country
       /\ region_options(country) = region_options(old_country)
    THEN old_region
    ELSE placeholder_region

----------------------------------------------------------------------------
(* Analysis settings and the run handler *)

\* the options of the multiselect (two of the seven) and its default
available_indices == <<"NDVI", "EVI">>
default_indices   == <<"NDVI", "EVI">>

Decimals == 4
\* 1.0 in ticks
One == (10 ^ Decimals) * TicksPerUnit

\* value=datetime(2023, 1, 1); the default end date is the last day of the
\* modelled calendar
default_start == 1
default_end   == MaxDay

\* pd.date_range(start, end, freq='D'): empty when start > end
date_range(start, end) == [i \in 1..(IF start > end THEN 0 ELSE end - start + 1) |-> start + i - 1]

\* d.strftime('%Y-%m-%d') over January and February 2023
strftime(d) == IF d <= 31 THEN <<2023, 1, d>> ELSE <<2023, 2, d - 31>>

\* np.clip(v, lo, hi)
clip(v, lo, hi) == IF v < lo THEN lo ELSE IF v > hi THEN hi ELSE v

\* np.sin(2*pi*i/365) * 0.3 + 0.5 and np.sin(2*pi*i/180) * 0.2 + 0.3,
\* linearised around day 0 (i is the offset of the day in the range)
base_pattern(i) == (5000 + 52 * i) * TicksPerUnit
ndwi_pattern(i) == (3000 + 70 * i) * TicksPerUnit

\* np.random.normal: the draw for index number k, day offset i, of a
\* generator in state seed; a normal draw can be any real, the model has
\* one far below, one small and one far above
normal(seed, k, i) ==
    LET r == (seed + k + i) % 3
    IN  IF r = 0 THEN 1 ELSE IF r = 1 THEN 0 - One ELSE One

\* the unclipped value of one day
raw_value(index, seed, k, i) ==
    IF index = "NDVI" THEN base_pattern(i) + normal(seed, k, i) + 1000 * TicksPerUnit
    ELSE IF index = "EVI" THEN (base_pattern(i) * 8) \div 10 + normal(seed, k, i) + 1500 * TicksPerUnit
    ELSE IF index = "SAVI" THEN (base_pattern(i) * 9) \div 10 + normal(seed, k, i) + 2000 * TicksPerUnit
    ELSE IF index = "NDWI" THEN ndwi_pattern(i) + normal(seed, k, i)
    ELSE base_pattern(i) + normal(seed, k, i) + 2500 * TicksPerUnit

\* results[index] = {'dates': [...], 'values': values.tolist()}
index_series(index, dates, seed, k) ==
    [dates  |-> [i \in 1..Len(dates) |-> strftime(dates[i])],
     values |-> [i \in 1..Len(dates) |-> Some(clip(raw_value(index, seed, k, i - 1), 0, One))]]

\* a dict is the sequence of its items in insertion order
Keys(d) == [i \in 1..Len(d) |-> d[i].index]
HasKey(d, k) == \E i \in 1..Len(d) : d[i].index = k
Lookup(d, k) == d[CHOOSE i \in 1..Len(d) : d[i].index = k].data

\* d[k] = v
DictSet(d, k, v) ==
    IF HasKey(d, k)
    THEN [i \in 1..Len(d) |-> IF d[i].index = k THEN [index |-> k, data |-> v] ELSE d[i]]
    ELSE Append(d, [index |-> k, data |-> v])

RECURSIVE generate_without_last(_, _, _, _)
\* a variant whose loop stops one index short
generate_without_last(indices, dates, seed, k) ==
    IF k >= Len(indices) THEN <<>>
    ELSE LET rest == generate_without_last(indices, dates, seed, k + 1)
         IN  <<[index |-> indices[k], data |-> index_series(indices[k], dates, seed, k - 1)]>> \o rest

RECURSIVE generate(_, _, _, _)
\* the for loop over enumerate(selected_indices), from position k on
generate(indices, dates, seed, k) ==
    IF k > Len(indices) THEN <<>>
    ELSE LET rest == generate(indices, dates, seed, k + 1)
         IN  <<[index |-> indices[k], data |-> index_series(indices[k], dates, seed, k - 1)]>> \o rest

RECURSIVE build_results(_, _)
\* results = {}; results[index] = ... for each item, in order
build_results(items, k) ==
    IF k = 0 THEN <<>>
    ELSE DictSet(build_results(items, k - 1), items[k].index, items[k].data)

\* the body of the try block: the dict the loop builds
run_results(indices, start, end, seed) ==
    LET items == generate(indices, date_range(start, end), seed, 1)
    IN  build_results(items, Len(items))

\* the except clause reports str(e); the model keeps the index whose
\* iteration raised ("" when none did)
no_index == ""

\* a variant without the check of the selection
run_analysis_unchecked(results, indices, start, end, seed, fail) ==
    IF fail = 0
    THEN [results |-> Some(run_results(indices, start, end, seed)),
          flash |-> "success", raised |-> no_index]
    ELSE [results |-> results, flash |-> "analysis_failed", raised |-> indices[fail]]

\* a variant that stores, when an iteration raises, the series built before it
run_analysis_partial(results, indices, start, end, seed, fail) ==
    IF indices = <<>>
    THEN [results |-> results, flash |-> "select_index_error", raised |-> no_index]
    ELSE IF fail = 0
         THEN [results |-> Some(run_results(indices, start, end, seed)),
               flash |-> "success", raised |-> no_index]
         ELSE [results |-> Some(run_results(SubSeq(indices, 1, fail - 1), start, end, seed)),
               flash |-> "analysis_failed", raised |-> indices[fail]]

\* the handler of the Run Analysis button: fail = 0 when no iteration of
\* the loop raises, fail = k when the iteration of selected_indices[k] does
run_analysis(results, indices, start, end, seed, fail) ==
    IF indices = <<>>
    THEN [results |-> results, flash |-> "select_index_error", raised |-> no_index]
    ELSE IF fail = 0
         THEN [results |-> Some(run_results(indices, start, end, seed)),
               flash |-> "success", raised |-> no_index]
         ELSE [results |-> results, flash |-> "analysis_failed", raised |-> indices[fail]]

\* if st.session_state.selected_area: the settings cards and the button are drawn
SettingsShown(area) == ~IsNone(area) /\ Get(area) # ""

----------------------------------------------------------------------------
(* The session *)

Init ==
    /\ authenticated = FALSE
    /\ analysis_results = None
    /\ selected_area = None
    /\ selected_country = placeholder_country
    /\ selected_region = placeholder_region
    /\ start_date = default_start
    /\ end_date = default_end
    /\ selected_indices = default_indices
    /\ flash = "none"
    /\ raised_at = no_index
    /\ password = ""
    /\ summary_df = <<>>
    /\ export_df = <<>>
    /\ stage = "app"

\* a variant that accepts any text that is not empty
check_password_not_empty(typed) == typed # ""

\* password == "admin"
check_password(typed) == typed = "admin"

\* the Sign In button, with typed in the password input (password keeps the
\* text of the last click): the script stops at st.stop() while unauthenticated
SignIn(typed) ==
    /\ stage = "app"
    /\ ~authenticated
    /\ password' = typed
    /\ IF check_password(typed)
       THEN /\ authenticated' = TRUE
            /\ selected_area' = StoreSelectedArea(selected_area, selected_country, selected_region)
            /\ flash' = "none"
       ELSE /\ flash' = "invalid_password"
            /\ UNCHANGED <<authenticated, selected_area>>
    /\ UNCHANGED <<analysis_results, widgets, raised_at, tables>>

\* the Country selectbox is set to another option
SelectCountry(country) ==
    /\ stage = "app"
    /\ authenticated
    /\ country # selected_country
    /\ selected_country' = country
    /\ selected_region' = RegionAfterCountry(selected_country, selected_region, country)
    /\ selected_area' = StoreSelectedArea(selected_area, country, selected_region')
    /\ flash' = "none"
    /\ raised_at' = no_index
    /\ UNCHANGED <<authenticated, password, analysis_results, start_date, end_date, selected_indices, tables>>

\* the State/Province selectbox is set to another option
SelectRegion(region) ==
    /\ stage = "app"
    /\ authenticated
    /\ selected_country # placeholder_country
    /\ region \in Range(region_options(selected_country))
    /\ region # selected_region
    /\ selected_region' = region
    /\ selected_area' = StoreSelectedArea(selected_area, selected_country, region)
    /\ flash' = "none"
    /\ raised_at' = no_index
    /\ UNCHANGED <<authenticated, password, analysis_results, selected_country, start_date, end_date,
                   selected_indices, tables>>

\* one of the two date inputs is set to another day
SetDates(start, end) ==
    /\ stage = "app"
    /\ authenticated
    /\ SettingsShown(selected_area)
    /\ (start = start_date) # (end = end_date)
    /\ start_date' = start
    /\ end_date' = end
    /\ selected_area' = StoreSelectedArea(selected_area, selected_country, selected_region)
    /\ flash' = "none"
    /\ raised_at' = no_index
    /\ UNCHANGED <<authenticated, password, analysis_results, selected_country, selected_region,
                   selected_indices, tables>>

\* an index is added to the multiselect (it goes last) or removed from it
ToggleIndex(index) ==
    /\ stage = "app"
    /\ authenticated
    /\ SettingsShown(selected_area)
    /\ selected_indices' =
          IF index \in Range(selected_indices)
          THEN SelectSeq(selected_indices, LAMBDA x : x # index)
          ELSE Append(selected_indices, index)
    /\ selected_area' = StoreSelectedArea(selected_area, selected_country, selected_region)
    /\ flash' = "none"
    /\ raised_at' = no_index
    /\ UNCHANGED <<authenticated, password, analysis_results, selected_country, selected_region,
                   start_date, end_date, tables>>

\* the Run Analysis button is clicked
RunAnalysis(seed, fail) ==
    /\ stage = "app"
    /\ authenticated
    /\ selected_area' = StoreSelectedArea(selected_area, selected_country, selected_region)
    /\ SettingsShown(selected_area')
    /\ fail <= Len(selected_indices)
    /\ LET out == run_analysis(analysis_results, selected_indices, start_date, end_date, seed, fail)
       IN  /\ analysis_results' = out.results
           /\ flash' = out.flash
           /\ raised_at' = out.raised
    /\ UNCHANGED <<authenticated, password, widgets, tables>>

Next ==
    \/ \E typed \in {"admin", "letmein", ""} : SignIn(typed)
    \/ \E country \in Range(countries) : SelectCountry(country)
    \/ \E region \in UNION {Range(region_options(c)) : c \in Range(countries)} : SelectRegion(region)
    \/ \E start, end \in 1..MaxDay : SetDates(start, end)
    \/ \E index \in Range(available_indices) : ToggleIndex(index)
    \/ \E seed \in 0..(NumSeeds - 1), fail \in 0..Len(available_indices) : RunAnalysis(seed, fail)

Spec == Init /\ [][Next]_vars

----------------------------------------------------------------------------
(* Results section: summary statistics and export table *)

\* the import of plotly succeeded
PLOTLY_AVAILABLE == TRUE

\* if st.session_state.analysis_results and PLOTLY_AVAILABLE
ResultsShown(results) == ~IsNone(results) /\ Get(results) # <<>> /\ PLOTLY_AVAILABLE

\* f"{x:.4f}" of the float num/den ticks: the number of 0.0001 units printed,
\* the nearest one, the even one of two equally near
fmt4(num, den) ==
    LET unit == den * TicksPerUnit
        q    == num \div unit
        r    == num - q * unit
    IN  IF 2 * r < unit THEN q
        ELSE IF 2 * r > unit THEN q + 1
        ELSE IF q % 2 = 0 THEN q ELSE q + 1

\* a variant that keeps an absent value and counts it as zero
present_values_as_zero(values) ==
    [i \in 1..Len(values) |-> IF IsNone(values[i]) THEN 0 ELSE Get(values[i])]

\* [v for v in data['values'] if v is not None]
present_values(values) ==
    LET kept == SelectSeq(values, LAMBDA v : ~IsNone(v))
    IN  [i \in 1..Len(kept) |-> Get(kept[i])]

RECURSIVE sum(_)
sum(values) == IF values = <<>> THEN 0 ELSE values[1] + sum(Tail(values))

RECURSIVE min(_)
min(values) ==
    IF Len(values) = 1 THEN values[1]
    ELSE LET m == min(Tail(values)) IN IF values[1] <= m THEN values[1] ELSE m

RECURSIVE max(_)
max(values) ==
    IF Len(values) = 1 THEN values[1]
    ELSE LET m == max(Tail(values)) IN IF values[1] >= m THEN values[1] ELSE m

\* the row appended for one index
summary_row(index, values) ==
    [Index      |-> index,
     Mean       |-> fmt4(sum(values), Len(values)),
     Min        |-> fmt4(min(values), 1),
     Max        |-> fmt4(max(values), 1),
     DataPoints |-> Len(values)]

RECURSIVE summary_data(_, _)
\* summary_data after the first k items of results.items()
summary_data(results, k) ==
    IF k = 0 THEN <<>>
    ELSE LET before == summary_data(results, k - 1)
             data   == results[k].data
             values == present_values(data.values)
         IN  IF data.values # <<>> /\ values # <<>>
             THEN Append(before, summary_row(results[k].index, values))
             ELSE before

\* zip(data['dates'], data['values']) as export rows of one index
zip_rows(index, data) ==
    [i \in 1..Min2(Len(data.dates), Len(data.values)) |->
        [Date |-> data.dates[i], Index |-> index, Value |-> data.values[i]]]

\* dates compare as (year, month, day)
DateBefore(a, b) ==
    \/ a[1] < b[1]
    \/ a[1] = b[1] /\ a[2] < b[2]
    \/ a[1] = b[1] /\ a[2] = b[2] /\ a[3] < b[3]

RECURSIVE sort_by_date(_)
\* a stable sort of export rows by Date
sort_by_date(rows) ==
    IF rows = <<>> THEN <<>>
    ELSE LET first == CHOOSE i \in 1..Len(rows) :
                         \A j \in 1..Len(rows) :
                            /\ ~DateBefore(rows[j].Date, rows[i].Date)
                            /\ (j < i => DateBefore(rows[i].Date, rows[j].Date))
             others == [j \in 1..(Len(rows) - 1) |-> IF j < first THEN rows[j] ELSE rows[j + 1]]
         IN  <<rows[first]>> \o sort_by_date(others)

RECURSIVE export_rows(_, _)
export_rows(results, k) ==
    IF k = 0 THEN <<>>
    ELSE export_rows(results, k - 1) \o zip_rows(results[k].index, results[k].data)

\* a variant that orders the combined table by date
export_data_by_date(results) == sort_by_date(export_rows(results, Len(results)))

\* export_data after the loop over results.items()
export_data(results) == export_rows(results, Len(results))

\* the values a series of a result can hold: absent, 0.42 and 0.51005
SeriesValues == {None, Some(4200 * TicksPerUnit), Some(5100 * TicksPerUnit + 1)}

\* the series the results section is tried on: the dates of the first days
\* and any list of values, of the same length or not
SeriesSet ==
    {[dates |-> [i \in 1..n |-> strftime(i)], values |-> v] :
        n \in 0..MaxLen, v \in SeqsUpTo(SeriesValues, MaxLen)}

\* the dicts the results section is tried on
ResultDicts ==
    {<<>>}
    \cup {<<[index |-> a, data |-> s]>> : a \in Range(available_indices), s \in SeriesSet}
    \cup {d \in {<<[index |-> a, data |-> s], [index |-> b, data |-> t]>> :
                    a \in Range(available_indices), b \in Range(available_indices),
                    s \in SeriesSet, t \in SeriesSet} : d[1].index # d[2].index}

\* an authenticated session that holds some result, before the results
\* section of the re-run is drawn
ResultsInit ==
    /\ authenticated = TRUE
    /\ analysis_results \in {None} \cup {Some(d) : d \in ResultDicts}
    /\ selected_area = Some("Canada")
    /\ selected_country = "Canada"
    /\ selected_region = placeholder_region
    /\ start_date = default_start
    /\ end_date = default_end
    /\ selected_indices = default_indices
    /\ flash = "none"
    /\ raised_at = no_index
    /\ password = "admin"
    /\ summary_df = <<>>
    /\ export_df = <<>>
    /\ stage = "results"

\* the Summary Statistics block
BuildSummary ==
    /\ stage = "results"
    /\ ResultsShown(analysis_results)
    /\ summary_df' = summary_data(Get(analysis_results), Len(Get(analysis_results)))
    /\ stage' = "summary"
    /\ UNCHANGED <<session, widgets, flash, raised_at, password, export_df>>

\* the Export Data block
BuildExport ==
    /\ stage = "summary"
    /\ export_df' = export_data(Get(analysis_results))
    /\ stage' = "export"
    /\ UNCHANGED <<session, widgets, flash, raised_at, password, summary_df>>

ResultsNext == BuildSummary \/ BuildExport

ResultsSpec == ResultsInit /\ [][ResultsNext]_vars

----------------------------------------------------------------------------
(* Properties of the run handler and the area card, under Spec *)

RunOutcomes == {"select_index_error", "success", "analysis_failed"}

\* the dates a run over the current date inputs gives every series
RequestedDates ==
    [i \in 1..Len(date_range(start_date, end_date)) |-> strftime(date_range(start_date, end_date)[i])]

\* C1: after a successful Run Analysis with a non-empty selection, the keys
\* of the stored result are exactly the requested index names, each once.
C1_ResultKeysAreRequest ==
    (flash = "success" /\ selected_indices # <<>>) =>
        /\ ~IsNone(analysis_results)
        /\ NoDup(Keys(Get(analysis_results)))
        /\ Range(Keys(Get(analysis_results))) = Range(selected_indices)

C1_Witness ==
    /\ flash = "success"
    /\ selected_indices = <<"EVI", "NDVI">>
    /\ Keys(Get(analysis_results)) = <<"EVI", "NDVI">>

\* C2: when the series of one requested index fails, the run still stores a
\* result: the failed index with an empty series, every other requested
\* index with its own series.
C2_FailureIsolated ==
    raised_at # no_index =>
        /\ ~IsNone(analysis_results)
        /\ Range(Keys(Get(analysis_results))) = Range(selected_indices)
        /\ \A k \in 1..Len(Get(analysis_results)) :
              LET item == Get(analysis_results)[k]
              IN  IF item.index = raised_at
                  THEN item.data.dates = <<>> /\ item.data.values = <<>>
                  ELSE item.data.dates = RequestedDates

\* C3: a Run Analysis with the start date after the end date reports an
\* error and stores no result.
C3_InvertedDatesRejected ==
    [][(flash' \in RunOutcomes /\ start_date' > end_date')
          => (flash' # "success" /\ analysis_results' = analysis_results)]_vars

\* C4: a Run Analysis with an empty selection reports the selection error
\* and leaves the stored result as it was.
C4_EmptySelectionKeepsResult ==
    [][(flash' \in RunOutcomes /\ selected_indices' = <<>>)
          => (flash' = "select_index_error" /\ analysis_results' = analysis_results)]_vars

C4_Witness ==
    /\ flash = "select_index_error"
    /\ selected_indices = <<>>
    /\ ~IsNone(analysis_results)

\* C10: after every render the selected area is the most specific level
\* selected: "region, country", the country alone when the region is
\* unset, no area when the country selector is at its placeholder.
C10_AreaIsCurrentSelection ==
    authenticated =>
        selected_area =
            IF selected_country = placeholder_country THEN None
            ELSE IF selected_region = placeholder_region THEN Some(selected_country)
            ELSE Some(selected_region \o ", " \o selected_country)

\* a stored result of one complete run: some index, each once, every
\* series over the same dates with one value per date
CompleteResult(results) ==
    /\ results # <<>>
    /\ NoDup(Keys(results))
    /\ \A k \in 1..Len(results) :
          /\ results[k].data.dates = results[1].data.dates
          /\ Len(results[k].data.values) = Len(results[k].data.dates)

\* the step stores the mapping of a successful run over the current request
StoredByCompleteRun ==
    /\ flash' = "success"
    /\ ~IsNone(analysis_results')
    /\ selected_indices' # <<>>
    /\ Keys(Get(analysis_results')) = selected_indices'
    /\ \A k \in 1..Len(Get(analysis_results')) :
          Get(analysis_results')[k].data.dates = RequestedDates'

\* C11: the stored result is always None or the mapping of one complete
\* run; it changes only in a successful run, to a mapping whose keys are the
\* indices requested in that run, and a run that fails part-way leaves it
\* as it was.
C11_OnlyCompleteRunsStore ==
    /\ [](IsNone(analysis_results) \/ CompleteResult(Get(analysis_results)))
    /\ [][(analysis_results' # analysis_results => StoredByCompleteRun)
           /\ (flash' = "analysis_failed" => analysis_results' = analysis_results)]_vars

C11_Witness ==
    /\ flash = "analysis_failed"
    /\ Len(selected_indices) = 2
    /\ raised_at = selected_indices[2]
    /\ ~IsNone(analysis_results)
    /\ Keys(Get(analysis_results)) # selected_indices

\* a step of the session as the authentication check allows it
AuthenticationStep ==
    /\ (~authenticated /\ authenticated') => password' = "admin"
    /\ (~authenticated /\ password' # "admin") =>
          UNCHANGED <<authenticated, analysis_results, selected_area>>
    /\ authenticated => authenticated'

\* C12: while the session is not authenticated the selected area and the
\* analysis result are None; the flag becomes true only in a sign-in with
\* the password "admin", a sign-in with another password leaves the session
\* state unchanged, and the flag never goes back to false.
C12_AuthenticationGates ==
    /\ [](~authenticated => (IsNone(selected_area) /\ IsNone(analysis_results)))
    /\ [][AuthenticationStep]_vars

C12_Witness ==
    /\ authenticated
    /\ password = "admin"
    /\ ~IsNone(selected_area)
    /\ ~IsNone(analysis_results)

C12_WrongPasswordWitness ==
    /\ ~authenticated
    /\ password = "letmein"
    /\ flash = "invalid_password"

\* the step changes the Country or the State/Province selectbox while a
\* result of an earlier run is stored
SelectionChangedAfterRun ==
    /\ ~IsNone(analysis_results)
    /\ (selected_country' # selected_country \/ selected_region' # selected_region)

\* C13: changing the country or region selection after a successful run
\* changes the selected area and leaves the stored result unchanged.
C13_SelectionChangeMovesArea ==
    [][SelectionChangedAfterRun =>
          (selected_area' # selected_area /\ analysis_results' = analysis_results)]_vars

\* what holds of C13: the stored result is never changed by a change of the
\* selection, and the selected area changes whenever neither the old nor the
\* new country is the placeholder.
SelectionChangeKeepsResult ==
    [][SelectionChangedAfterRun =>
          /\ analysis_results' = analysis_results
          /\ (selected_country # placeholder_country /\ selected_country' # placeholder_country)
                => selected_area' # selected_area]_vars

----------------------------------------------------------------------------
(* Properties of the results section, under ResultsSpec *)

\* the positions of a list of values that hold a value
Present(values) == {i \in 1..Len(values) : ~IsNone(values[i])}

WellFormed(data) == Len(data.dates) = Len(data.values)
AllWellFormed(results) == \A k \in 1..Len(results) : WellFormed(results[k].data)

RowsOf(rows, index) == {i \in 1..Len(rows) : rows[i].Index = index}

RECURSIVE SumOver(_, _)
SumOver(values, positions) ==
    IF positions = {} THEN 0
    ELSE LET i == CHOOSE p \in positions : TRUE
         IN  Get(values[i]) + SumOver(values, positions \ {i})

Least(values, positions) ==
    CHOOSE v \in {Get(values[i]) : i \in positions} :
        \A i \in positions : v <= Get(values[i])

Greatest(values, positions) ==
    CHOOSE v \in {Get(values[i]) : i \in positions} :
        \A i \in positions : v >= Get(values[i])

Abs(x) == IF x < 0 THEN 0 - x ELSE x

SummaryRowsAndCounts ==
    LET results == Get(analysis_results)
    IN  /\ \A i \in 1..Len(summary_df) : summary_df[i].Index \in Range(Keys(results))
        /\ \A k \in 1..Len(results) :
              LET values == results[k].data.values
                  rows   == RowsOf(summary_df, results[k].index)
              IN  /\ Cardinality(rows) = IF Present(values) = {} THEN 0 ELSE 1
                  /\ \A i \in rows :
                        summary_df[i].DataPoints = Cardinality(Present(values))

\* C6 as stated: the summary has one row per index with a present value,
\* with the count of present values, their exact extrema and their exact
\* mean.
C6_SummaryExact ==
    stage \in {"summary", "export"} =>
        /\ SummaryRowsAndCounts
        /\ \A k \in 1..Len(Get(analysis_results)) :
              LET values == Get(analysis_results)[k].data.values
                  n      == Cardinality(Present(values))
              IN  \A i \in RowsOf(summary_df, Get(analysis_results)[k].index) :
                    /\ summary_df[i].Min * TicksPerUnit = Least(values, Present(values))
                    /\ summary_df[i].Max * TicksPerUnit = Greatest(values, Present(values))
                    /\ summary_df[i].Mean * TicksPerUnit * n = SumOver(values, Present(values))

\* C6 as amended: the summary has one row per index with a present value,
\* with the count of present values; min, max and mean are the extrema and
\* sum/count of the present values printed with four decimals, that is
\* within half of 0.0001 of them.
C6_SummaryRounded ==
    stage \in {"summary", "export"} =>
        /\ SummaryRowsAndCounts
        /\ \A k \in 1..Len(Get(analysis_results)) :
              LET values == Get(analysis_results)[k].data.values
                  n      == Cardinality(Present(values))
              IN  \A i \in RowsOf(summary_df, Get(analysis_results)[k].index) :
                    /\ 2 * Abs(summary_df[i].Min * TicksPerUnit - Least(values, Present(values)))
                          <= TicksPerUnit
                    /\ 2 * Abs(summary_df[i].Max * TicksPerUnit - Greatest(values, Present(values)))
                          <= TicksPerUnit
                    /\ 2 * Abs(summary_df[i].Mean * TicksPerUnit * n - SumOver(values, Present(values)))
                          <= TicksPerUnit * n

C6_Witness ==
    /\ stage = "summary"
    /\ Len(Get(analysis_results)) = 2
    /\ Get(analysis_results)[1].data.values = <<None, None>>
    /\ Get(analysis_results)[2].data.values = <<None, Some(5100 * TicksPerUnit + 1)>>
    /\ Len(summary_df) = 1
    /\ summary_df[1].DataPoints = 1

C8_ExportIndexMajor ==
    stage = "export" =>
        LET results == Get(analysis_results)
            KeyPos(index) == CHOOSE p \in 1..Len(results) : results[p].index = index
        IN  /\ \A i, j \in 1..Len(export_df) :
                  i < j => KeyPos(export_df[i].Index) <= KeyPos(export_df[j].Index)
            /\ \A k \in 1..Len(results) :
                  LET own  == SelectSeq(export_df, LAMBDA r : r.Index = results[k].index)
                      data == results[k].data
                  IN  /\ Len(own) = Min2(Len(data.dates), Len(data.values))
                      /\ \A i \in 1..Len(own) :
                            own[i].Date = data.dates[i] /\ own[i].Value = data.values[i]

C8_Witness ==
    /\ stage = "export"
    /\ Len(Get(analysis_results)) = 2
    /\ Len(export_df) = 4
    /\ export_df[2].Index # export_df[3].Index
    /\ DateBefore(export_df[3].Date, export_df[2].Date)

====
